---- MODULE Spec2Model ----
(***************************************************************************)
(* Titanic data analysis (src/main.py): the CSV loader load_dataset, the   *)
(* eight statistic functions, visualize_distributions and the top-level    *)
(* sequence under `if __name__ == "__main__"`.                             *)
(*                                                                         *)
(* Text is modelled as it is in the file: a CSV cell is a string, a column *)
(* name is a sequence of text fragments (so that `'Unnamed' in col` is a   *)
(* real substring search).  pd.read_csv names headerless columns, infers a *)
(* dtype per column and converts the cells.  A float is an exact fraction  *)
(* [num, den]; nan is 0/0.                                                 *)
(***************************************************************************)
EXTENDS Integers, Sequences, FiniteSets, TLC

VARIABLES
    file,                    \* what is on disk at file_path
    pc,                      \* position of the top-level sequence
    titanic_df_clean,        \* main.py:164
    stdout,                  \* everything print() has written, in order
    exc,                     \* the exception that escaped to the interpreter
    shown,                   \* plt.show() was reached (main.py:159)
    survival_rate,           \* main.py:168
    gender_distribution,     \* main.py:172
    class_survival_rate,     \* main.py:176
    highest_survival_class,  \* main.py:177
    sibsp_count,             \* main.py:182
    average_fare_by_class,   \* main.py:186
    embarked_count,          \* main.py:190
    gender_survival_rate,    \* main.py:194
    unique_ticket_count      \* main.py:198

locals == <<survival_rate, gender_distribution, class_survival_rate,
            highest_survival_class, sibsp_count, average_fare_by_class,
            embarked_count, gender_survival_rate, unique_ticket_count>>

vars == <<file, pc, titanic_df_clean, stdout, exc, shown, locals>>

\* Largest number of data rows of a CSV file.
MaxRows == 3

-----------------------------------------------------------------------------
(* Python values *)

None == [type |-> "NoneType"]
Unbound == [type |-> "unbound"]

Return(v) == [raised |-> "none", value |-> v]
Raise(e) == [raised |-> e]

\* A float as an exact fraction; den = 0 is nan (0/0) or inf (n/0).
RECURSIVE GCD(_, _)
GCD(a, b) == IF b = 0 THEN a ELSE GCD(b, a % b)

Float(n, d) ==
    IF d = 0 THEN [num |-> IF n = 0 THEN 0 ELSE 1, den |-> 0]
    ELSE LET g == GCD(n, d) IN [num |-> n \div g, den |-> d \div g]

nan == Float(0, 0)

FloatMul(x, k) == Float(x.num * k, x.den)

FloatGt(x, y) == x.den # 0 /\ y.den # 0 /\ x.num * y.den > y.num * x.den

RECURSIVE SeqSum(_)
SeqSum(s) == IF s = <<>> THEN 0 ELSE Head(s) + SeqSum(Tail(s))

Range(s) == {s[i] : i \in 1..Len(s)}

-----------------------------------------------------------------------------
(* Text *)

\* col.startswith('Unnamed') in place of 'Unnamed' in col.
StartsWith(pat, s) == Len(pat) <= Len(s) /\ SubSeq(s, 1, Len(pat)) = pat

\* 'Unnamed' in col (main.py:18): pat occurs in s as a contiguous run.
In(pat, s) ==
    \E i \in 1..(Len(s) - Len(pat) + 1) : SubSeq(s, i, i + Len(pat) - 1) = pat

\* str(i) for the column positions and row numbers a small file has.
Str(i) ==
    CASE i = 0 -> "0" [] i = 1 -> "1" [] i = 2 -> "2" [] i = 3 -> "3"
      [] i = 4 -> "4" [] i = 5 -> "5" [] i = 6 -> "6" [] i = 7 -> "7"
      [] i = 8 -> "8" [] i = 9 -> "9" [] OTHER -> "10"

\* The numerals that occur in the files below, and their values.
Numerals == {"0", "1", "2", "3", "4", "5", "10", "22", "100"}

ParseInt(s) ==
    CASE s = "0" -> 0 [] s = "1" -> 1 [] s = "2" -> 2 [] s = "3" -> 3
      [] s = "4" -> 4 [] s = "5" -> 5 [] s = "10" -> 10 [] s = "22" -> 22
      [] s = "100" -> 100

\* A missing value of an object column.
NA == "<NA>"

-----------------------------------------------------------------------------
(* pandas: reading a CSV file *)

\* pd.read_csv's name for the column at 0-based position i whose header
\* cell is blank.
UnnamedName(i) == <<"Unnamed", ": ", Str(i)>>

ColumnName(header, j) ==
    IF header[j] = <<>> THEN UnnamedName(j - 1) ELSE header[j]

\* The dtype read_csv infers for column j: with no rows there is nothing to
\* infer from and the column is object; all-numeral cells give int64.
InferDtype(lines, j) ==
    IF lines = <<>> THEN "object"
    ELSE IF \A i \in 1..Len(lines) : lines[i][j] \in Numerals THEN "int64"
    ELSE "object"

ConvertCell(dtype, cell) ==
    IF dtype = "int64" THEN ParseInt(cell)
    ELSE IF cell = "" THEN NA ELSE cell

DataFrame(columns, dtypes, data) ==
    [type |-> "DataFrame", columns |-> columns, dtypes |-> dtypes, data |-> data]

\* pd.read_csv(file_path) on the file f found at the path (main.py:16).
read_csv(f) ==
    CASE f.kind = "missing" -> Raise("FileNotFoundError")
      [] f.kind = "directory" -> Raise("IsADirectoryError")
      [] f.kind = "zero_bytes" -> Raise("EmptyDataError")
      [] f.kind = "malformed" -> Raise("ParserError")
      [] f.kind = "undecodable" -> Raise("UnicodeDecodeError")
      [] f.kind = "csv" ->
            LET n == Len(f.header)
                dtypes == [j \in 1..n |-> InferDtype(f.lines, j)]
            IN  Return(DataFrame(
                    [j \in 1..n |-> ColumnName(f.header, j)],
                    dtypes,
                    [i \in 1..Len(f.lines) |->
                        [j \in 1..n |-> ConvertCell(dtypes[j], f.lines[i][j])]]))

RECURSIVE KeepIdx(_, _, _)
\* The positions j >= k of columns whose name is not in labels, ascending.
KeepIdx(columns, labels, k) ==
    IF k > Len(columns) THEN <<>>
    ELSE (IF columns[k] \in labels THEN <<>> ELSE <<k>>)
         \o KeepIdx(columns, labels, k + 1)

\* DataFrame.drop(columns=labels) (main.py:18): a new frame without the
\* labelled columns; rows, order and values are otherwise kept.
drop(df, labels) ==
    LET keep == KeepIdx(df.columns, labels, 1)
    IN  DataFrame(
            [k \in 1..Len(keep) |-> df.columns[keep[k]]],
            [k \in 1..Len(keep) |-> df.dtypes[keep[k]]],
            [i \in 1..Len(df.data) |->
                [k \in 1..Len(keep) |-> df.data[i][keep[k]]]])

-----------------------------------------------------------------------------
(* load_dataset (main.py:5-31) *)

\* Python's exception classes: each class's base.
Base(cls) ==
    CASE cls = "FileNotFoundError" -> "OSError"
      [] cls = "IsADirectoryError" -> "OSError"
      [] cls = "OSError" -> "Exception"
      [] cls = "EmptyDataError" -> "ValueError"
      [] cls = "ParserError" -> "ValueError"
      [] cls = "UnicodeDecodeError" -> "ValueError"
      [] cls = "KeyError" -> "LookupError"
      [] cls = "LookupError" -> "Exception"
      [] cls = "ZeroDivisionError" -> "ArithmeticError"
      [] cls = "ArithmeticError" -> "Exception"
      [] cls = "TypeError" -> "Exception"
      [] cls = "ValueError" -> "Exception"
      [] cls = "Exception" -> "BaseException"
      [] OTHER -> "object"

RECURSIVE IsInstance(_, _)
IsInstance(e, cls) ==
    IF e = cls THEN TRUE
    ELSE IF e = "object" THEN FALSE
    ELSE IsInstance(Base(e), cls)

\* The file path the program reads (main.py:163).
file_path == "./data/Titanic.csv"

\* Handlers without the final `except Exception` clause.
HandlersNoCatchAll == <<
    [cls |-> "FileNotFoundError",
     msg |-> "Error: The file at {file_path} was not found."],
    [cls |-> "EmptyDataError", msg |-> "Error: The file is empty."],
    [cls |-> "ParserError",
     msg |-> "Error: There was a problem parsing the file."] >>

\* The except clauses of load_dataset, in source order, with what each prints.
Handlers == <<
    [cls |-> "FileNotFoundError",
     msg |-> "Error: The file at {file_path} was not found."],
    [cls |-> "EmptyDataError", msg |-> "Error: The file is empty."],
    [cls |-> "ParserError",
     msg |-> "Error: There was a problem parsing the file."],
    [cls |-> "Exception", msg |-> "An error occurred: {e}"] >>

RECURSIVE Except(_, _, _, _)
\* The first clause from position k on that matches e prints its message and
\* returns None; with no matching clause e propagates.
Except(handlers, k, e, path) ==
    IF k > Len(handlers) THEN [ret |-> None, out |-> <<>>, raised |-> e]
    ELSE IF IsInstance(e, handlers[k].cls)
         THEN [ret |-> None,
               out |-> <<[text |-> handlers[k].msg, path |-> path, e |-> e]>>,
               raised |-> "none"]
         ELSE Except(handlers, k + 1, e, path)

load_dataset(path, f) ==
    LET r == read_csv(f)
    IN  IF r.raised = "none"
        THEN LET titanic_df == r.value
                 unnamed == {titanic_df.columns[j] : j \in
                                {j \in 1..Len(titanic_df.columns) :
                                    In(<<"Unnamed">>, titanic_df.columns[j])}}
             IN  [ret |-> drop(titanic_df, unnamed), out |-> <<>>,
                  raised |-> "none"]
        ELSE Except(Handlers, 1, r.raised, path)

-----------------------------------------------------------------------------
(* pandas: columns, reductions, grouping *)

PyInt(v) == [ty |-> "int", v |-> v]
NpInt(v) == [ty |-> "numpy.int64", v |-> v]

Series(index, values) == [type |-> "Series", index |-> index, values |-> values]

Pos(seq, x) == CHOOSE i \in 1..Len(seq) : seq[i] = x

\* len(df): TypeError on None.
len(df) ==
    IF df = None THEN Raise("TypeError") ELSE Return(PyInt(Len(df.data)))

\* df[name]: the column's values with its dtype; KeyError without the column.
column(df, name) ==
    IF df = None THEN Raise("TypeError")
    ELSE IF <<name>> \notin Range(df.columns) THEN Raise("KeyError")
    ELSE LET j == Pos(df.columns, <<name>>)
         IN  Return([dtype |-> df.dtypes[j],
                     values |-> [i \in 1..Len(df.data) |-> df.data[i][j]]])

\* A sum that is a numpy scalar whatever the column's dtype.
series_sum_numpy(col) == NpInt(SeqSum(col.values))

\* Series.sum(): a numpy scalar for a numeric column; for an object column
\* the Python sum of its elements, which is the int 0 when there are none.
series_sum(col) ==
    IF col.dtype = "int64" THEN NpInt(SeqSum(col.values))
    ELSE PyInt(SeqSum(col.values))

\* Division that never raises: inf or nan on a zero divisor.
truediv_numpy(a, b) == Return(Float(a.v, b.v))

\* a / b: Python ints raise ZeroDivisionError on a zero divisor; with a numpy
\* operand the result is inf or nan (and a RuntimeWarning), not an exception.
truediv(a, b) ==
    IF a.ty = "int" /\ b.ty = "int" /\ b.v = 0 THEN Raise("ZeroDivisionError")
    ELSE Return(Float(a.v, b.v))

\* The values that are not missing (dropna).
RECURSIVE NotNA(_, _)
NotNA(dtype, values) ==
    IF values = <<>> THEN <<>>
    ELSE (IF dtype = "object" /\ Head(values) = NA THEN <<>> ELSE <<Head(values)>>)
         \o NotNA(dtype, Tail(values))

\* The distinct values, in order of first appearance.
RECURSIVE Unique(_)
Unique(values) ==
    IF values = <<>> THEN <<>>
    ELSE LET init == Unique(SubSeq(values, 1, Len(values) - 1))
             last == values[Len(values)]
         IN  IF last \in Range(init) THEN init ELSE Append(init, last)

Count(values, x) == Cardinality({i \in 1..Len(values) : values[i] = x})

\* Lexicographic rank of the category strings, for sorting group keys.
StrOrd(k) ==
    CASE k = "A" -> 1 [] k = "B" -> 2 [] k = "C" -> 3 [] k = "Q" -> 4
      [] k = "S" -> 5 [] k = "female" -> 6 [] k = "male" -> 7 [] OTHER -> 8

KeyOrd(dtype, k) == IF dtype = "int64" THEN k ELSE StrOrd(k)

\* Stable insertion of x into keys, which are ascending under Ord.
RECURSIVE InsertAsc(_, _, _)
InsertAsc(dtype, keys, x) ==
    IF keys = <<>> THEN <<x>>
    ELSE IF KeyOrd(dtype, x) < KeyOrd(dtype, Head(keys)) THEN <<x>> \o keys
    ELSE <<Head(keys)>> \o InsertAsc(dtype, Tail(keys), x)

RECURSIVE SortAsc(_, _)
SortAsc(dtype, keys) ==
    IF keys = <<>> THEN <<>>
    ELSE InsertAsc(dtype, SortAsc(dtype, SubSeq(keys, 1, Len(keys) - 1)),
                   keys[Len(keys)])

\* The group keys of df.groupby(by): the distinct non-missing values of the
\* column, sorted ascending (sort=True is the default).
group_keys(col) == SortAsc(col.dtype, Unique(NotNA(col.dtype, col.values)))

\* df.groupby(by)[of].sum() in place of .mean().
groupby_sum(df, by, of) ==
    LET b == column(df, by)
        o == column(df, of)
    IN  IF b.raised # "none" THEN b
        ELSE IF o.raised # "none" THEN o
        ELSE LET keys == group_keys(b.value)
                 rows(k) == {i \in 1..Len(df.data) : b.value.values[i] = k}
                 total(k) == SeqSum([n \in 1..Len(df.data) |->
                                IF n \in rows(k) THEN o.value.values[n] ELSE 0])
             IN  Return(Series(keys,
                    [n \in 1..Len(keys) |-> Float(total(keys[n]), 1)]))

\* df.groupby(by)[of].mean(): one entry per group key, the mean of `of`
\* over the rows of that group.
groupby_mean(df, by, of) ==
    LET b == column(df, by)
        o == column(df, of)
    IN  IF b.raised # "none" THEN b
        ELSE IF o.raised # "none" THEN o
        ELSE LET keys == group_keys(b.value)
                 rows(k) == {i \in 1..Len(df.data) : b.value.values[i] = k}
                 total(k) == SeqSum([n \in 1..Len(df.data) |->
                                IF n \in rows(k) THEN o.value.values[n] ELSE 0])
             IN  Return(Series(keys,
                    [n \in 1..Len(keys) |->
                        Float(total(keys[n]), Cardinality(rows(keys[n])))]))

\* Stable insertion of key x into keys, which are descending by count.
RECURSIVE InsertDesc(_, _, _)
InsertDesc(values, keys, x) ==
    IF keys = <<>> THEN <<x>>
    ELSE IF Count(values, x) > Count(values, Head(keys)) THEN <<x>> \o keys
    ELSE <<Head(keys)>> \o InsertDesc(values, Tail(keys), x)

RECURSIVE SortDesc(_, _)
SortDesc(values, keys) ==
    IF keys = <<>> THEN <<>>
    ELSE InsertDesc(values, SortDesc(values, SubSeq(keys, 1, Len(keys) - 1)),
                    keys[Len(keys)])

\* Series.value_counts(): the count of each distinct non-missing value, most
\* frequent first.
value_counts(col) ==
    LET present == NotNA(col.dtype, col.values)
        keys == SortDesc(present, Unique(present))
    IN  Series(keys, [n \in 1..Len(keys) |-> Count(present, keys[n])])

\* Series.value_counts(normalize=True): the counts as fractions of the
\* number of non-missing values.
value_counts_normalized(col) ==
    LET present == NotNA(col.dtype, col.values)
        vc == value_counts(col)
    IN  Series(vc.index,
               [n \in 1..Len(vc.index) |-> Float(vc.values[n], Len(present))])

\* series * k
series_mul(s, k) ==
    Series(s.index, [n \in 1..Len(s.index) |-> FloatMul(s.values[n], k)])

\* series.get(key, 0) in place of series[key].
getitem_or_zero(s, key) ==
    IF key \in Range(s.index) THEN Return(s.values[Pos(s.index, key)])
    ELSE Return(Float(0, 1))

\* series[key]: KeyError when the key is not in the index.
getitem(s, key) ==
    IF key \in Range(s.index) THEN Return(s.values[Pos(s.index, key)])
    ELSE Raise("KeyError")

\* The position of the last maximum among the positions 1..n of values.
RECURSIVE ArgMaxLast(_, _)
ArgMaxLast(values, n) ==
    IF n = 1 THEN 1
    ELSE LET best == ArgMaxLast(values, n - 1)
         IN  IF FloatGt(values[best], values[n]) THEN best ELSE n

\* The position of the first maximum among the positions 1..n of values.
RECURSIVE ArgMax(_, _)
ArgMax(values, n) ==
    IF n = 1 THEN 1
    ELSE LET best == ArgMax(values, n - 1)
         IN  IF FloatGt(values[n], values[best]) THEN n ELSE best

\* Series.idxmax(): the index label of the first occurrence of the maximum
\* (a numpy.int64 for an integer index); ValueError on an empty series.
idxmax(s) ==
    IF s.index = <<>> THEN Raise("ValueError")
    ELSE Return(s.index[ArgMax(s.values, Len(s.values))])

-----------------------------------------------------------------------------
(* The statistic functions (main.py:33-129) *)

\* The survival rate left as a fraction of 1 (the `* 100` forgotten).
calculate_survival_fraction(titanic_df) ==
    LET total_passengers == len(titanic_df)
        survived == column(titanic_df, "Survived")
    IN  IF total_passengers.raised # "none" THEN total_passengers
        ELSE IF survived.raised # "none" THEN survived
        ELSE truediv(series_sum(survived.value), total_passengers.value)

calculate_survival_rate(titanic_df) ==
    LET total_passengers == len(titanic_df)
        survived == column(titanic_df, "Survived")
    IN  IF total_passengers.raised # "none" THEN total_passengers
        ELSE IF survived.raised # "none" THEN survived
        ELSE LET survived_passengers == series_sum(survived.value)
                 q == truediv(survived_passengers, total_passengers.value)
             IN  IF q.raised # "none" THEN q
                 ELSE Return(FloatMul(q.value, 100))

\* value_counts() without normalize=True.
calculate_gender_counts(titanic_df) ==
    LET sex == column(titanic_df, "Sex")
        vc == value_counts(sex.value)
    IN  IF sex.raised # "none" THEN sex
        ELSE Return(series_mul(
                Series(vc.index,
                       [n \in 1..Len(vc.index) |-> Float(vc.values[n], 1)]), 100))

calculate_gender_proportion(titanic_df) ==
    LET sex == column(titanic_df, "Sex")
    IN  IF sex.raised # "none" THEN sex
        ELSE Return(series_mul(value_counts_normalized(sex.value), 100))

calculate_class_survival_rate(titanic_df) ==
    LET m == groupby_mean(titanic_df, "Pclass", "Survived")
    IN  IF m.raised # "none" THEN m ELSE Return(series_mul(m.value, 100))

count_siblings_spouses_aboard(titanic_df) ==
    LET sibsp == column(titanic_df, "SibSp")
    IN  IF sibsp.raised # "none" THEN sibsp
        ELSE Return(NpInt(Cardinality({i \in 1..Len(sibsp.value.values) :
                                          sibsp.value.values[i] > 0})))

calculate_average_fare_by_class(titanic_df) ==
    groupby_mean(titanic_df, "Pclass", "Fare")

count_passengers_by_port(titanic_df) ==
    LET embarked == column(titanic_df, "Embarked")
    IN  IF embarked.raised # "none" THEN embarked
        ELSE Return(value_counts(embarked.value))

calculate_gender_survival_rate(titanic_df) ==
    LET m == groupby_mean(titanic_df, "Sex", "Survived")
    IN  IF m.raised # "none" THEN m ELSE Return(series_mul(m.value, 100))

count_unique_tickets(titanic_df) ==
    LET ticket == column(titanic_df, "Ticket")
    IN  IF ticket.raised # "none" THEN ticket
        ELSE Return(PyInt(Cardinality(Range(NotNA(ticket.value.dtype,
                                                  ticket.value.values)))))

\* visualize_distributions (main.py:131-159): the histogram reads Age, the
\* box plot reads Pclass and Fare; plt.show() is reached when both are drawn.
visualize_distributions(titanic_df) ==
    LET age == column(titanic_df, "Age")
        pclass == column(titanic_df, "Pclass")
        fare == column(titanic_df, "Fare")
    IN  IF age.raised # "none" THEN age
        ELSE IF pclass.raised # "none" \/ fare.raised # "none"
             THEN Raise("ValueError")
        ELSE Return(None)

-----------------------------------------------------------------------------
(* Formatting and printing *)

\* f"{x:.2f}": x rounded to hundredths (round-half-even), as a count of
\* hundredths; nan prints as "nan" and inf as "inf".
Fmt2f(x) ==
    IF x.den = 0 THEN [text |-> IF x.num = 0 THEN "nan" ELSE "inf"]
    ELSE LET n == x.num * 100
             q == n \div x.den
             r == n % x.den
         IN  [hundredths |->
                IF 2 * r > x.den THEN q + 1
                ELSE IF 2 * r = x.den THEN q + (q % 2)
                ELSE q]

\* One print() call of the top-level sequence: the question it answers, the
\* template's title and the values substituted into it.
Block(q, title, fields) == [q |-> q, title |-> title, fields |-> fields]

\* The first exception among results evaluated left to right, or "none".
FirstRaised(rs) ==
    IF \A i \in 1..Len(rs) : rs[i].raised = "none" THEN "none"
    ELSE rs[CHOOSE i \in 1..Len(rs) :
                /\ rs[i].raised # "none"
                /\ \A j \in 1..(i - 1) : rs[j].raised = "none"].raised

-----------------------------------------------------------------------------
(* The files the program may find at file_path *)

\* One passenger as written in a CSV line, field by field.
Passenger(survived, pclass, sex, sibsp, fare, embarked, ticket) ==
    [Survived |-> survived, Pclass |-> pclass, Sex |-> sex, Age |-> "22",
     SibSp |-> sibsp, Fare |-> fare, Embarked |-> embarked, Ticket |-> ticket]

Passengers == {
    Passenger("1", "1", "female", "0", "100", "C", "A"),
    Passenger("0", "3", "male", "1", "10", "S", "B"),
    Passenger("1", "2", "male", "0", "10", "Q", "A"),
    Passenger("0", "2", "female", "1", "100", "", "B"),
    Passenger("0", "1", "male", "0", "10", "S", "A"),
    Passenger("1", "3", "female", "1", "100", "Q", "B") }

\* A column of a file: its header cell, the passenger field (or "#row", the
\* row number a saved index holds, or "#deck") that fills it, and whether it
\* holds data or is the index a previous save wrote.
DataCol(name) == [header |-> <<name>>, from |-> name, origin |-> "data"]

Plain == <<DataCol("Survived"), DataCol("Pclass"), DataCol("Sex"),
           DataCol("Age"), DataCol("SibSp"), DataCol("Ticket"),
           DataCol("Fare"), DataCol("Embarked")>>

\* The file as DataFrame.to_csv() writes it: a leading index column with a
\* blank header.
Indexed == <<[header |-> <<>>, from |-> "#row", origin |-> "index"]>> \o Plain

\* The columns of the end-to-end example of the specification (no Age).
NoAge == <<DataCol("Survived"), DataCol("Pclass"), DataCol("Sex"),
           DataCol("Fare"), DataCol("Embarked"), DataCol("SibSp"),
           DataCol("Ticket")>>

\* Data columns beside the schema: one whose header names it "Deck Unnamed",
\* one whose header is blank, one named in lower case.
Extras == Plain \o
    <<[header |-> <<"Deck", " ", "Unnamed">>, from |-> "#deck", origin |-> "data"],
      [header |-> <<>>, from |-> "#deck", origin |-> "data"],
      [header |-> <<"unnamed", ": ", "0">>, from |-> "#deck", origin |-> "data"]>>

Layouts == {Plain, Indexed, NoAge, Extras}

Cell(spec, p, i) ==
    IF spec.from = "#row" THEN Str(i - 1)
    ELSE IF spec.from = "#deck" THEN "C85"
    ELSE p[spec.from]

CsvFile(layout, ps) ==
    [kind |-> "csv",
     header |-> [j \in 1..Len(layout) |-> layout[j].header],
     origin |-> [j \in 1..Len(layout) |-> layout[j].origin],
     lines |-> [i \in 1..Len(ps) |->
                  [j \in 1..Len(layout) |-> Cell(layout[j], ps[i], i)]]]

CsvFiles ==
    {CsvFile(layout, ps) : layout \in Layouts,
        ps \in UNION {[1..n -> Passengers] : n \in 0..MaxRows}}

Files ==
    {[kind |-> k] : k \in {"missing", "directory", "zero_bytes", "malformed",
                            "undecodable"}} \cup CsvFiles

-----------------------------------------------------------------------------
(* The top-level sequence (main.py:162-202) *)

Init ==
    /\ file \in Files
    /\ pc = "load"
    /\ titanic_df_clean = Unbound
    /\ stdout = <<>>
    /\ exc = "none"
    /\ shown = FALSE
    /\ survival_rate = Unbound
    /\ gender_distribution = Unbound
    /\ class_survival_rate = Unbound
    /\ highest_survival_class = Unbound
    /\ sibsp_count = Unbound
    /\ average_fare_by_class = Unbound
    /\ embarked_count = Unbound
    /\ gender_survival_rate = Unbound
    /\ unique_ticket_count = Unbound

\* An uncaught exception ends the run.
Crash(e) == pc' = "crashed" /\ exc' = e

Go(next) == pc' = next /\ exc' = exc

\* The guard left out: the statistics run whatever load_dataset returned.
LoadSucceededUnchecked(df) == TRUE

\* if titanic_df_clean is not None (main.py:166)
LoadSucceeded(df) == df # None

\* main.py:164-166
LoadDataset ==
    /\ pc = "load"
    /\ LET r == load_dataset(file_path, file)
       IN  /\ stdout' = stdout \o r.out
           /\ IF r.raised # "none"
              THEN Crash(r.raised) /\ UNCHANGED titanic_df_clean
              ELSE /\ titanic_df_clean' = r.ret
                   /\ Go(IF LoadSucceeded(r.ret) THEN "q1" ELSE "done")
    /\ UNCHANGED <<file, shown, locals>>

\* 1. main.py:168-169
SurvivalRate ==
    /\ pc = "q1"
    /\ LET r == calculate_survival_rate(titanic_df_clean)
       IN  IF r.raised # "none"
           THEN Crash(r.raised) /\ UNCHANGED <<survival_rate, stdout>>
           ELSE /\ survival_rate' = r.value
                /\ stdout' = Append(stdout,
                        Block(1, "Survival Rate", <<Fmt2f(r.value)>>))
                /\ Go("q2")
    /\ UNCHANGED <<file, titanic_df_clean, shown, gender_distribution,
                   class_survival_rate, highest_survival_class, sibsp_count,
                   average_fare_by_class, embarked_count, gender_survival_rate,
                   unique_ticket_count>>

\* 2. main.py:172-173
GenderProportion ==
    /\ pc = "q2"
    /\ LET r == calculate_gender_proportion(titanic_df_clean)
       IN  IF r.raised # "none"
           THEN Crash(r.raised) /\ UNCHANGED <<gender_distribution, stdout>>
           ELSE /\ gender_distribution' = r.value
                /\ LET male == getitem(r.value, "male")
                       female == getitem(r.value, "female")
                       e == FirstRaised(<<male, female>>)
                   IN  IF e # "none"
                       THEN Crash(e) /\ UNCHANGED stdout
                       ELSE /\ stdout' = Append(stdout,
                                    Block(2, "Gender Proportion",
                                          <<Fmt2f(male.value), Fmt2f(female.value)>>))
                            /\ Go("q3")
    /\ UNCHANGED <<file, titanic_df_clean, shown, survival_rate,
                   class_survival_rate, highest_survival_class, sibsp_count,
                   average_fare_by_class, embarked_count, gender_survival_rate,
                   unique_ticket_count>>

\* 3. main.py:176-179
ClassSurvivalRate ==
    /\ pc = "q3"
    /\ LET r == calculate_class_survival_rate(titanic_df_clean)
       IN  IF r.raised # "none"
           THEN /\ Crash(r.raised)
                /\ UNCHANGED <<class_survival_rate, highest_survival_class, stdout>>
           ELSE /\ class_survival_rate' = r.value
                /\ LET h == idxmax(r.value)
                       c1 == getitem(r.value, 1)
                       c2 == getitem(r.value, 2)
                       c3 == getitem(r.value, 3)
                       e == FirstRaised(<<c1, c2, c3>>)
                   IN  IF h.raised # "none"
                       THEN /\ Crash(h.raised)
                            /\ UNCHANGED <<highest_survival_class, stdout>>
                       ELSE /\ highest_survival_class' = NpInt(h.value)
                            /\ IF e # "none"
                               THEN Crash(e) /\ UNCHANGED stdout
                               ELSE /\ stdout' = stdout \o
                                        <<Block(3, "Survival Rate by Class",
                                                <<Fmt2f(c1.value), Fmt2f(c2.value),
                                                  Fmt2f(c3.value)>>),
                                          Block(3, "Class with Highest Survival Rate",
                                                <<h.value>>)>>
                                    /\ Go("q4")
    /\ UNCHANGED <<file, titanic_df_clean, shown, survival_rate,
                   gender_distribution, sibsp_count, average_fare_by_class,
                   embarked_count, gender_survival_rate, unique_ticket_count>>

\* 4. main.py:182-183
SiblingsSpouses ==
    /\ pc = "q4"
    /\ LET r == count_siblings_spouses_aboard(titanic_df_clean)
       IN  IF r.raised # "none"
           THEN Crash(r.raised) /\ UNCHANGED <<sibsp_count, stdout>>
           ELSE /\ sibsp_count' = r.value
                /\ stdout' = Append(stdout,
                        Block(4, "Passengers with Siblings or Spouses Aboard",
                              <<r.value.v>>))
                /\ Go("q5")
    /\ UNCHANGED <<file, titanic_df_clean, shown, survival_rate,
                   gender_distribution, class_survival_rate,
                   highest_survival_class, average_fare_by_class,
                   embarked_count, gender_survival_rate, unique_ticket_count>>

\* 5. main.py:186-187
AverageFare ==
    /\ pc = "q5"
    /\ LET r == calculate_average_fare_by_class(titanic_df_clean)
       IN  IF r.raised # "none"
           THEN Crash(r.raised) /\ UNCHANGED <<average_fare_by_class, stdout>>
           ELSE /\ average_fare_by_class' = r.value
                /\ LET c1 == getitem(r.value, 1)
                       c2 == getitem(r.value, 2)
                       c3 == getitem(r.value, 3)
                       e == FirstRaised(<<c1, c2, c3>>)
                   IN  IF e # "none"
                       THEN Crash(e) /\ UNCHANGED stdout
                       ELSE /\ stdout' = Append(stdout,
                                    Block(5, "Average Fare by Class",
                                          <<Fmt2f(c1.value), Fmt2f(c2.value),
                                            Fmt2f(c3.value)>>))
                            /\ Go("q6")
    /\ UNCHANGED <<file, titanic_df_clean, shown, survival_rate,
                   gender_distribution, class_survival_rate,
                   highest_survival_class, sibsp_count, embarked_count,
                   gender_survival_rate, unique_ticket_count>>

\* 6. main.py:190-191
PassengersByPort ==
    /\ pc = "q6"
    /\ LET r == count_passengers_by_port(titanic_df_clean)
       IN  IF r.raised # "none"
           THEN Crash(r.raised) /\ UNCHANGED <<embarked_count, stdout>>
           ELSE /\ embarked_count' = r.value
                /\ LET c == getitem(r.value, "C")
                       q == getitem(r.value, "Q")
                       s == getitem(r.value, "S")
                       e == FirstRaised(<<c, q, s>>)
                   IN  IF e # "none"
                       THEN Crash(e) /\ UNCHANGED stdout
                       ELSE /\ stdout' = Append(stdout,
                                    Block(6, "Passengers by Port of Embarkation",
                                          <<c.value, q.value, s.value>>))
                            /\ Go("q9")
    /\ UNCHANGED <<file, titanic_df_clean, shown, survival_rate,
                   gender_distribution, class_survival_rate,
                   highest_survival_class, sibsp_count, average_fare_by_class,
                   gender_survival_rate, unique_ticket_count>>

\* 9. main.py:194-195
GenderSurvivalRate ==
    /\ pc = "q9"
    /\ LET r == calculate_gender_survival_rate(titanic_df_clean)
       IN  IF r.raised # "none"
           THEN Crash(r.raised) /\ UNCHANGED <<gender_survival_rate, stdout>>
           ELSE /\ gender_survival_rate' = r.value
                /\ LET male == getitem(r.value, "male")
                       female == getitem(r.value, "female")
                       e == FirstRaised(<<male, female>>)
                   IN  IF e # "none"
                       THEN Crash(e) /\ UNCHANGED stdout
                       ELSE /\ stdout' = Append(stdout,
                                    Block(9, "Survival Rate by Gender",
                                          <<Fmt2f(male.value), Fmt2f(female.value)>>))
                            /\ Go("q10")
    /\ UNCHANGED <<file, titanic_df_clean, shown, survival_rate,
                   gender_distribution, class_survival_rate,
                   highest_survival_class, sibsp_count, average_fare_by_class,
                   embarked_count, unique_ticket_count>>

\* 10. main.py:198-199
UniqueTickets ==
    /\ pc = "q10"
    /\ LET r == count_unique_tickets(titanic_df_clean)
       IN  IF r.raised # "none"
           THEN Crash(r.raised) /\ UNCHANGED <<unique_ticket_count, stdout>>
           ELSE /\ unique_ticket_count' = r.value
                /\ stdout' = Append(stdout,
                        Block(10, "Unique Ticket Numbers", <<r.value.v>>))
                /\ Go("plot")
    /\ UNCHANGED <<file, titanic_df_clean, shown, survival_rate,
                   gender_distribution, class_survival_rate,
                   highest_survival_class, sibsp_count, average_fare_by_class,
                   embarked_count, gender_survival_rate>>

\* 7 and 8. main.py:202
Visualize ==
    /\ pc = "plot"
    /\ LET r == visualize_distributions(titanic_df_clean)
       IN  IF r.raised # "none"
           THEN Crash(r.raised) /\ UNCHANGED shown
           ELSE shown' = TRUE /\ Go("done")
    /\ UNCHANGED <<file, titanic_df_clean, stdout, locals>>

Next ==
    \/ LoadDataset
    \/ SurvivalRate
    \/ GenderProportion
    \/ ClassSurvivalRate
    \/ SiblingsSpouses
    \/ AverageFare
    \/ PassengersByPort
    \/ GenderSurvivalRate
    \/ UniqueTickets
    \/ Visualize

Spec == Init /\ [][Next]_vars

-----------------------------------------------------------------------------
(* The statistic functions called one at a time on a loaded table *)

InitFn ==
    /\ file \in CsvFiles
    /\ pc = "call"
    /\ titanic_df_clean = load_dataset(file_path, file).ret
    /\ stdout = <<>>
    /\ exc = "none"
    /\ shown = FALSE
    /\ survival_rate = Unbound
    /\ gender_distribution = Unbound
    /\ class_survival_rate = Unbound
    /\ highest_survival_class = Unbound
    /\ sibsp_count = Unbound
    /\ average_fare_by_class = Unbound
    /\ embarked_count = Unbound
    /\ gender_survival_rate = Unbound
    /\ unique_ticket_count = Unbound

\* The call returns r.value into the variable, or raises.
Returned(r) == pc' = "returned" /\ exc' = r.raised

CallSurvivalRate ==
    /\ pc = "call"
    /\ LET r == calculate_survival_rate(titanic_df_clean)
       IN  /\ Returned(r)
           /\ survival_rate' = IF r.raised = "none" THEN r.value ELSE Unbound
    /\ UNCHANGED <<file, titanic_df_clean, stdout, shown, gender_distribution,
                   class_survival_rate, highest_survival_class, sibsp_count,
                   average_fare_by_class, embarked_count, gender_survival_rate,
                   unique_ticket_count>>

CallGenderProportion ==
    /\ pc = "call"
    /\ LET r == calculate_gender_proportion(titanic_df_clean)
       IN  /\ Returned(r)
           /\ gender_distribution' = IF r.raised = "none" THEN r.value ELSE Unbound
    /\ UNCHANGED <<file, titanic_df_clean, stdout, shown, survival_rate,
                   class_survival_rate, highest_survival_class, sibsp_count,
                   average_fare_by_class, embarked_count, gender_survival_rate,
                   unique_ticket_count>>

CallClassSurvivalRate ==
    /\ pc = "call"
    /\ LET r == calculate_class_survival_rate(titanic_df_clean)
       IN  /\ Returned(r)
           /\ class_survival_rate' = IF r.raised = "none" THEN r.value ELSE Unbound
    /\ UNCHANGED <<file, titanic_df_clean, stdout, shown, survival_rate,
                   gender_distribution, highest_survival_class, sibsp_count,
                   average_fare_by_class, embarked_count, gender_survival_rate,
                   unique_ticket_count>>

CallSiblingsSpouses ==
    /\ pc = "call"
    /\ LET r == count_siblings_spouses_aboard(titanic_df_clean)
       IN  /\ Returned(r)
           /\ sibsp_count' = IF r.raised = "none" THEN r.value ELSE Unbound
    /\ UNCHANGED <<file, titanic_df_clean, stdout, shown, survival_rate,
                   gender_distribution, class_survival_rate,
                   highest_survival_class, average_fare_by_class,
                   embarked_count, gender_survival_rate, unique_ticket_count>>

CallAverageFare ==
    /\ pc = "call"
    /\ LET r == calculate_average_fare_by_class(titanic_df_clean)
       IN  /\ Returned(r)
           /\ average_fare_by_class' = IF r.raised = "none" THEN r.value ELSE Unbound
    /\ UNCHANGED <<file, titanic_df_clean, stdout, shown, survival_rate,
                   gender_distribution, class_survival_rate,
                   highest_survival_class, sibsp_count, embarked_count,
                   gender_survival_rate, unique_ticket_count>>

CallPassengersByPort ==
    /\ pc = "call"
    /\ LET r == count_passengers_by_port(titanic_df_clean)
       IN  /\ Returned(r)
           /\ embarked_count' = IF r.raised = "none" THEN r.value ELSE Unbound
    /\ UNCHANGED <<file, titanic_df_clean, stdout, shown, survival_rate,
                   gender_distribution, class_survival_rate,
                   highest_survival_class, sibsp_count, average_fare_by_class,
                   gender_survival_rate, unique_ticket_count>>

CallGenderSurvivalRate ==
    /\ pc = "call"
    /\ LET r == calculate_gender_survival_rate(titanic_df_clean)
       IN  /\ Returned(r)
           /\ gender_survival_rate' = IF r.raised = "none" THEN r.value ELSE Unbound
    /\ UNCHANGED <<file, titanic_df_clean, stdout, shown, survival_rate,
                   gender_distribution, class_survival_rate,
                   highest_survival_class, sibsp_count, average_fare_by_class,
                   embarked_count, unique_ticket_count>>

CallUniqueTickets ==
    /\ pc = "call"
    /\ LET r == count_unique_tickets(titanic_df_clean)
       IN  /\ Returned(r)
           /\ unique_ticket_count' = IF r.raised = "none" THEN r.value ELSE Unbound
    /\ UNCHANGED <<file, titanic_df_clean, stdout, shown, survival_rate,
                   gender_distribution, class_survival_rate,
                   highest_survival_class, sibsp_count, average_fare_by_class,
                   embarked_count, gender_survival_rate>>

NextFn ==
    \/ CallSurvivalRate
    \/ CallGenderProportion
    \/ CallClassSurvivalRate
    \/ CallSiblingsSpouses
    \/ CallAverageFare
    \/ CallPassengersByPort
    \/ CallGenderSurvivalRate
    \/ CallUniqueTickets

FnSpec == InitFn /\ [][NextFn]_vars

-----------------------------------------------------------------------------
(* Properties *)

Ended == pc \in {"done", "crashed"}

\* load_dataset returned a table.
Loaded == pc # "load" /\ titanic_df_clean # Unbound /\ titanic_df_clean # None

IsBlock(line) == "q" \in DOMAIN line

\* The statistic blocks printed so far, by question number.
Printed == [i \in 1..Len(stdout) |-> stdout[i].q]

NoLocalBound ==
    /\ survival_rate = Unbound
    /\ gender_distribution = Unbound
    /\ class_survival_rate = Unbound
    /\ highest_survival_class = Unbound
    /\ sibsp_count = Unbound
    /\ average_fare_by_class = Unbound
    /\ embarked_count = Unbound
    /\ gender_survival_rate = Unbound
    /\ unique_ticket_count = Unbound

\* The values of a column of the loaded table, read off its rows.
CellsOf(name) ==
    LET j == Pos(titanic_df_clean.columns, <<name>>)
    IN  [i \in 1..Len(titanic_df_clean.data) |-> titanic_df_clean.data[i][j]]

NRows == Len(titanic_df_clean.data)

\* The message load_dataset prints for each kind of unreadable file.
ExpectedMessage ==
    CASE file.kind = "missing" ->
            [text |-> "Error: The file at {file_path} was not found.",
             path |-> "./data/Titanic.csv", e |-> "FileNotFoundError"]
      [] file.kind = "zero_bytes" ->
            [text |-> "Error: The file is empty.",
             path |-> "./data/Titanic.csv", e |-> "EmptyDataError"]
      [] file.kind = "malformed" ->
            [text |-> "Error: There was a problem parsing the file.",
             path |-> "./data/Titanic.csv", e |-> "ParserError"]
      [] file.kind = "directory" ->
            [text |-> "An error occurred: {e}",
             path |-> "./data/Titanic.csv", e |-> "IsADirectoryError"]
      [] file.kind = "undecodable" ->
            [text |-> "An error occurred: {e}",
             path |-> "./data/Titanic.csv", e |-> "UnicodeDecodeError"]

\* C1: when the file cannot be read (not found, empty, unparsable, or any
\* other exception), load_dataset prints exactly the one message of that
\* failure kind and returns None, and no exception escapes; a nonexistent
\* path gives the not-found message and None.
C1_LoadFailureReported ==
    (pc # "load" /\ file.kind # "csv") =>
        /\ titanic_df_clean = None
        /\ exc = "none"
        /\ stdout = <<ExpectedMessage>>

C1_Witness ==
    /\ pc = "done"
    /\ file.kind = "missing"
    /\ titanic_df_clean = None
    /\ Len(stdout) = 1

\* C2: when load_dataset returns None the run ends after the load step: no
\* statistic function and no plot is run and no statistic block is printed.
C2_NothingAfterFailedLoad ==
    (pc # "load" /\ titanic_df_clean = None) =>
        /\ pc = "done"
        /\ exc = "none"
        /\ NoLocalBound
        /\ ~shown
        /\ \A i \in 1..Len(stdout) : ~IsBlock(stdout[i])

C2_Witness ==
    /\ pc = "done"
    /\ titanic_df_clean = None
    /\ file.kind = "zero_bytes"
    /\ NoLocalBound

HeaderOnly == file.kind = "csv" /\ file.lines = <<>>

\* C6: a file with a header row and no data rows loads as a table of
\* length 0, and calculate_survival_rate on it raises ZeroDivisionError:
\* no rate is returned or printed.
C6_EmptyTableDividesByZero ==
    (HeaderOnly /\ pc # "load") =>
        /\ Loaded
        /\ NRows = 0
        /\ stdout = <<>>
        /\ survival_rate = Unbound
        /\ pc \in {"q1", "crashed"}
        /\ pc = "crashed" => exc = "ZeroDivisionError"

C6_Witness ==
    /\ HeaderOnly
    /\ pc = "crashed"
    /\ exc = "ZeroDivisionError"
    /\ Len(titanic_df_clean.columns) = 8

Survivors == Cardinality({i \in 1..NRows : CellsOf("Survived")[i] = 1})

\* C8: for a non-empty table calculate_survival_rate returns 100 times the
\* number of rows with Survived = 1 over the number of rows, a value between
\* 0 and 100; 0 when nobody survived, 100 when everybody did.
C8_SurvivalRate ==
    survival_rate # Unbound =>
        /\ NRows > 0
        /\ survival_rate.den > 0
        /\ survival_rate.num * NRows = 100 * Survivors * survival_rate.den
        /\ 0 <= survival_rate.num
        /\ survival_rate.num <= 100 * survival_rate.den
        /\ Survivors = 0 => survival_rate = [num |-> 0, den |-> 1]
        /\ Survivors = NRows => survival_rate = [num |-> 100, den |-> 1]

C8_Witness ==
    /\ survival_rate = [num |-> 100, den |-> 3]
    /\ NRows = 3

\* What the top-level sequence needs of the loaded table.
Has(name, x) == \E i \in 1..NRows : CellsOf(name)[i] = x

BothSexes == Has("Sex", "male") /\ Has("Sex", "female")
AllClasses == Has("Pclass", 1) /\ Has("Pclass", 2) /\ Has("Pclass", 3)
AllPorts == Has("Embarked", "C") /\ Has("Embarked", "Q") /\ Has("Embarked", "S")
HasAge == <<"Age">> \in Range(titanic_df_clean.columns)

\* The questions answered by a printed statistic (7 and 8 are the plots).
StatisticQuestions == {1, 2, 3, 4, 5, 6, 9, 10}

\* The print calls of a full run, by question, in order.
AllBlocks == <<1, 2, 3, 3, 4, 5, 6, 9, 10>>

BlockQs == {stdout[i].q : i \in {n \in 1..Len(stdout) : IsBlock(stdout[n])}}

\* The first step of the sequence that fails on the loaded table: 1 on an
\* empty table, 2, 3 or 6 on an absent category, 7 (the plots) without an
\* Age column; 0 when none fails.
FirstFailing ==
    IF NRows = 0 THEN 1
    ELSE IF ~BothSexes THEN 2
    ELSE IF ~AllClasses THEN 3
    ELSE IF ~AllPorts THEN 6
    ELSE IF ~HasAge THEN 7
    ELSE 0

BlocksBefore(step) ==
    CASE step = 1 -> <<>>
      [] step = 2 -> <<1>>
      [] step = 3 -> <<1, 2>>
      [] step = 6 -> <<1, 2, 3, 3, 4, 5>>
      [] OTHER -> AllBlocks

\* C3 as stated: a run ends with either every statistic block printed and
\* the plots shown, or with none of them.
C3_AllOrNothing ==
    Ended => \/ BlockQs = {} /\ ~shown
             \/ BlockQs = StatisticQuestions /\ shown

\* C3, amended: a run ends with nothing beyond the load step (the load
\* failed), or with every statistic block printed and the plots shown, or at
\* the first step that fails, with exactly the blocks of the steps before it
\* printed and nothing after it.
C3_StopsAtFirstFailure ==
    Ended =>
        IF titanic_df_clean = None
        THEN BlockQs = {} /\ ~shown /\ pc = "done"
        ELSE /\ Printed = BlocksBefore(FirstFailing)
             /\ shown = (FirstFailing = 0)
             /\ (pc = "done") = (FirstFailing = 0)
             /\ (exc = "none") = (FirstFailing = 0)

C3_Witness ==
    /\ pc = "crashed"
    /\ Loaded
    /\ Printed = <<1, 2>>
    /\ ~shown

\* C4: when the sequence indexes an aggregate by a sex, class or port that
\* no row of the table has, the access raises KeyError, nothing catches it
\* and the run ends there: the aggregate was computed, no block of that or
\* a later step is printed and the plots are not shown.
C4_MissingKeyEndsRun ==
    (Ended /\ Loaded /\ NRows > 0 /\ ~(BothSexes /\ AllClasses /\ AllPorts)) =>
        /\ pc = "crashed"
        /\ exc = "KeyError"
        /\ ~shown
        /\ Printed = BlocksBefore(FirstFailing)
        /\ FirstFailing = 2 => gender_distribution # Unbound
        /\ FirstFailing = 3 => class_survival_rate # Unbound
        /\ FirstFailing = 6 => embarked_count # Unbound
        /\ unique_ticket_count = Unbound

C4_Witness ==
    /\ pc = "crashed"
    /\ exc = "KeyError"
    /\ Loaded
    /\ BothSexes /\ AllClasses /\ ~Has("Embarked", "Q")
    /\ Printed = <<1, 2, 3, 3, 4, 5>>
    /\ embarked_count # Unbound

\* The CSV of the end-to-end example.
ExampleFile ==
    CsvFile(NoAge, <<Passenger("1", "1", "female", "0", "100", "C", "A"),
                     Passenger("0", "3", "male", "1", "10", "S", "B")>>)

Pct(n) == [num |-> n, den |-> 1]

\* C5 as stated: the run on the example file produces every listed result.
C5_ExampleProducesAll ==
    (file = ExampleFile /\ Ended) =>
        /\ survival_rate = Pct(50)
        /\ getitem(gender_distribution, "male") = Return(Pct(50))
        /\ getitem(gender_distribution, "female") = Return(Pct(50))
        /\ getitem(class_survival_rate, 1) = Return(Pct(100))
        /\ getitem(class_survival_rate, 3) = Return(Pct(0))
        /\ highest_survival_class = NpInt(1)
        /\ sibsp_count = NpInt(1)
        /\ average_fare_by_class # Unbound
        /\ embarked_count # Unbound
        /\ unique_ticket_count = PyInt(2)

\* C5, amended: on the example file the run prints survival rate 50.00% and
\* gender proportion 50.00/50.00, computes class survival 100% for class 1
\* and 0% for class 3 with class 1 the highest, and then ends with KeyError
\* at the access of class 2, printing nothing more; the remaining functions,
\* applied to the loaded table, return sibsp count 1, average fare 100 for
\* class 1 and 10 for class 3, one passenger each for C and S, and 2 unique
\* tickets.
C5_ExampleStopsAtClass2 ==
    (file = ExampleFile /\ Ended) =>
        /\ pc = "crashed"
        /\ exc = "KeyError"
        /\ stdout = <<Block(1, "Survival Rate", <<[hundredths |-> 5000]>>),
                      Block(2, "Gender Proportion",
                            <<[hundredths |-> 5000], [hundredths |-> 5000]>>)>>
        /\ survival_rate = Pct(50)
        /\ class_survival_rate = Series(<<1, 3>>, <<Pct(100), Pct(0)>>)
        /\ getitem(class_survival_rate, 2) = Raise("KeyError")
        /\ highest_survival_class = NpInt(1)
        /\ sibsp_count = Unbound
        /\ count_siblings_spouses_aboard(titanic_df_clean) = Return(NpInt(1))
        /\ calculate_average_fare_by_class(titanic_df_clean)
              = Return(Series(<<1, 3>>, <<Pct(100), Pct(10)>>))
        /\ LET ports == count_passengers_by_port(titanic_df_clean).value
           IN  /\ Range(ports.index) = {"C", "S"}
               /\ getitem(ports, "C") = Return(1)
               /\ getitem(ports, "S") = Return(1)
        /\ count_unique_tickets(titanic_df_clean) = Return(PyInt(2))

C5_Witness ==
    /\ file = ExampleFile
    /\ pc = "crashed"
    /\ Len(stdout) = 2

PresentClasses == {CellsOf("Pclass")[i] : i \in 1..NRows}

RowsOfClass(k) == {i \in 1..NRows : CellsOf("Pclass")[i] = k}

SurvivorsOfClass(k) == {i \in RowsOfClass(k) : CellsOf("Survived")[i] = 1}

\* C7: the result of calculate_class_survival_rate has exactly one entry for
\* each Pclass value that occurs in a row and none for a class without rows;
\* each entry is 100 times the survivors of the class over its rows.
C7_ClassSurvivalRate ==
    class_survival_rate # Unbound =>
        LET s == class_survival_rate
        IN  /\ Range(s.index) = PresentClasses
            /\ Len(s.index) = Cardinality(PresentClasses)
            /\ Len(s.values) = Len(s.index)
            /\ \A n \in 1..Len(s.index) :
                    /\ s.values[n].den > 0
                    /\ s.values[n].num * Cardinality(RowsOfClass(s.index[n]))
                         = 100 * Cardinality(SurvivorsOfClass(s.index[n]))
                               * s.values[n].den

C7_Witness ==
    /\ pc = "returned"
    /\ class_survival_rate # Unbound
    /\ class_survival_rate.index = <<1, 3>>
    /\ NRows = 3

\* C9: the class reported as having the highest survival rate is a class of
\* the table whose rate is maximal, and among classes that tie for the
\* maximum it is the smallest Pclass value, whatever the order of the rows.
C9_HighestSurvivalClass ==
    highest_survival_class # Unbound =>
        LET h == highest_survival_class.v
            surv(k) == Cardinality(SurvivorsOfClass(k))
            rows(k) == Cardinality(RowsOfClass(k))
        IN  /\ h \in PresentClasses
            /\ \A k \in PresentClasses :
                    /\ surv(k) * rows(h) <= surv(h) * rows(k)
                    /\ surv(k) * rows(h) = surv(h) * rows(k) => h <= k
            /\ \A i \in 1..Len(stdout) :
                    stdout[i].title = "Class with Highest Survival Rate"
                        => stdout[i].fields = <<h>>

C9_Witness ==
    /\ highest_survival_class = NpInt(1)
    /\ CellsOf("Pclass")[1] = 3
    /\ getitem(class_survival_rate, 3) = getitem(class_survival_rate, 1)
    /\ \E i \in 1..Len(stdout) :
            stdout[i].title = "Class with Highest Survival Rate"

\* C10 as stated: after a successful load every data column of the file is
\* a column of the table.
C10_DataColumnsKept ==
    (pc # "load" /\ file.kind = "csv") =>
        \A j \in 1..Len(file.header) :
            file.origin[j] = "data" =>
                ColumnName(file.header, j) \in Range(titanic_df_clean.columns)

\* C10, amended: after a successful load the table has exactly the parsed
\* columns whose name does not contain 'Unnamed' (a blank header is named
\* 'Unnamed: <position>'), in their original order, with every row, dtype and
\* value unchanged; a column whose name contains 'Unnamed' is removed whether
\* or not it holds data.
C10_DropsUnnamedColumns ==
    (pc # "load" /\ file.kind = "csv") =>
        LET parsed == read_csv(file).value
            kept == {j \in 1..Len(parsed.columns) :
                        \A i \in 1..Len(parsed.columns[j]) :
                            parsed.columns[j][i] # "Unnamed"}
            rank == [j \in kept |-> Cardinality({k \in kept : k <= j})]
            df == titanic_df_clean
        IN  /\ Loaded
            /\ Len(df.columns) = Cardinality(kept)
            /\ Len(df.dtypes) = Cardinality(kept)
            /\ Len(df.data) = Len(file.lines)
            /\ \A i \in 1..Len(df.data) : Len(df.data[i]) = Cardinality(kept)
            /\ \A j \in kept :
                    /\ df.columns[rank[j]] = parsed.columns[j]
                    /\ df.dtypes[rank[j]] = parsed.dtypes[j]
                    /\ \A i \in 1..Len(df.data) :
                            df.data[i][rank[j]] = parsed.data[i][j]

C10_Witness ==
    /\ Loaded
    /\ Len(file.header) = 11
    /\ Len(titanic_df_clean.columns) = 9
    /\ <<"unnamed", ": ", "0">> \in Range(titanic_df_clean.columns)
    /\ NRows = 2

====
